---- MODULE Spec2Model ----
(***************************************************************************)
(* bin/ci-deploy.py: resolution of a deployable asset build.               *)
(*                                                                         *)
(*   hash_files / find_commits   content identity and the ancestry walk    *)
(*   workflow_runs               the persisted, paginated cache of runs    *)
(*   find_workflow_run           the selection of a run                    *)
(*   artifact_url, main          the pipeline that ends in the deploy      *)
(***************************************************************************)
EXTENDS Naturals, Integers, Sequences, FiniteSets, TLC

VARIABLES
    parents,        \* commit -> sequence of parent commits (commit.parents)
    tree,           \* commit -> tree (path -> blob id, 0 when the path is absent)
    commit,         \* the commit find_commits is started from (repo.head.commit in main)
    wanted_hash,    \* the identity searched for
    emitted,        \* the sequence of commit ids find_commits yielded
    stack,          \* the commits find_commits has yet to be entered for, next one first
    wanted_commits, \* set(find_commits(...))
    remote,         \* the CI provider's listing of runs, newest first
    file,           \* workflow_runs.pickle
    data,           \* the mapping held by workflow_runs, then "runs" in main
    url,            \* number of the page the next session.get asks for
    res,            \* the last response of the listing endpoint
    pc,             \* position in main
    found,          \* the result of find_workflow_run
    download,       \* the result of artifact_url
    exit,           \* how the process ended
    hist,           \* what this invocation has done so far (observation only)
    name,           \* the artifact name artifact_url is called with
    artifacts,      \* the artifact listing of the selected run, as artifact_url got it
    peer            \* the locals of a second process that works on the same file

vars == <<parents, tree, commit, wanted_hash, emitted, stack, wanted_commits,
          remote, file, data, url, res, pc, found, download, exit, hist,
          name, artifacts, peer>>

repoVars == <<parents, tree>>
walkVars == <<commit, wanted_hash, emitted, stack, wanted_commits>>

-----------------------------------------------------------------------------
(* Bounds *)

MaxCommits == 3      \* commits of the repository in the ancestry specification
MaxRuns == 3         \* runs the provider ever lists; store entries in the selection specification
PageSize == 2        \* runs per page of the listing
MaxArtifacts == 2    \* artifacts in a run's artifact listing

-----------------------------------------------------------------------------
(* Repository: trees, identities, the commit graph *)

ASSET_FILES == <<".github/workflows/assets.yml", "public", "ui", "package.json", "yarn.lock">>

Paths == {ASSET_FILES[i] : i \in 1..Len(ASSET_FILES)} \cup {"README.md"}

Absent == 0

\* The trees commits are drawn from: a base tree, one with another blob at a
\* tracked path, one with another blob at an untracked path only, and one
\* without one of the tracked paths.
BaseTree == [p \in Paths |-> 1]

TreeSet ==
    { BaseTree,
      [BaseTree EXCEPT !["ui"] = 2],
      [BaseTree EXCEPT !["README.md"] = 2],
      [BaseTree EXCEPT !["yarn.lock"] = Absent] }

KeyError == <<-1>>

\* Variant: a lookup that answers an absent path with no blob instead of raising.
hash_files_absent_as_blob(t, files) == [i \in 1..Len(files) |-> t[files[i]]]

\* tuple(tree[path].hexsha for path in files); tree[path] raises KeyError
hash_files(t, files) ==
    IF \E i \in 1..Len(files) : t[files[i]] = Absent
    THEN KeyError
    ELSE [i \in 1..Len(files) |-> t[files[i]]]

Commits(n) == 1..n

InjSeqs(S) ==
    UNION { { s \in [1..Cardinality(T) -> T] : \A i, j \in 1..Cardinality(T) : s[i] = s[j] => i = j }
            : T \in SUBSET S }

\* Acyclic by construction: a commit's parents are older commits.
Graphs(n) ==
    { g \in [Commits(n) -> InjSeqs(Commits(n - 1))] :
        \A c \in Commits(n) : \A i \in 1..Len(g[c]) : g[c][i] < c }

RECURSIVE Concat(_)
Concat(ss) == IF ss = <<>> THEN <<>> ELSE Head(ss) \o Concat(Tail(ss))

SeqToSet(s) == {s[i] : i \in 1..Len(s)}

\* Variant: the walk goes on below a commit of another identity.
RECURSIVE walk_no_prune(_, _, _)
walk_no_prune(c, files, wanted) ==
    <<[ev |-> "call", c |-> c]>> \o
    (IF hash_files(tree[c], files) = KeyError
     THEN <<>>
     ELSE (IF hash_files(tree[c], files) # wanted THEN <<>> ELSE <<[ev |-> "yield", c |-> c]>>)
          \o Concat([i \in 1..Len(parents[c]) |-> walk_no_prune(parents[c][i], files, wanted)]))

\* Variant: only the first parent of a commit is followed.
RECURSIVE walk_first_parent(_, _, _)
walk_first_parent(c, files, wanted) ==
    <<[ev |-> "call", c |-> c]>> \o
    (IF hash_files(tree[c], files) = KeyError \/ hash_files(tree[c], files) # wanted
     THEN <<>>
     ELSE <<[ev |-> "yield", c |-> c]>>
          \o (IF parents[c] = <<>> THEN <<>> ELSE walk_first_parent(parents[c][1], files, wanted)))

\* The calls and yields of find_commits, in order.
RECURSIVE walk(_, _, _)
walk(c, files, wanted) ==
    <<[ev |-> "call", c |-> c]>> \o
    (IF hash_files(tree[c], files) = KeyError \/ hash_files(tree[c], files) # wanted
     THEN <<>>
     ELSE <<[ev |-> "yield", c |-> c]>>
          \o Concat([i \in 1..Len(parents[c]) |-> walk(parents[c][i], files, wanted)]))

IsYield(e) == e.ev = "yield"
IsCall(e) == e.ev = "call"
CommitOf(e) == e.c

MapSeq(s, Op(_)) == [i \in 1..Len(s) |-> Op(s[i])]

\* The generator's output: the commit ids it yields.
find_commits(c, files, wanted) == MapSeq(SelectSeq(walk(c, files, wanted), IsYield), CommitOf)

\* The commits find_commits was entered for.
visited(c, files, wanted) == MapSeq(SelectSeq(walk(c, files, wanted), IsCall), CommitOf)

-----------------------------------------------------------------------------
(* Runs and the store *)

ASSET_BUILDS_URL == 1     \* the first page of the listing

NoRun == [id |-> 0, status |-> "none", conclusion |-> "none", head_commit |-> 0]

\* What a run's status and conclusion can be together: the conclusion is
\* null until the run is completed.
Dispositions ==
    { <<"queued", "none">>, <<"in_progress", "none">>,
      <<"completed", "success">>, <<"completed", "failure">> }

Run(i, d, c) == [id |-> i, status |-> d[1], conclusion |-> d[2], head_commit |-> c]

\* A dict is a sequence of runs with distinct ids, in insertion order.
Ids(d) == {d[i].id : i \in 1..Len(d)}

Entries(d) == SeqToSet(d)

Succeeded(run) == run.status = "completed" /\ run.conclusion = "success"

Has(d, i) == \E k \in 1..Len(d) : d[k].id = i

Get(d, i) == d[CHOOSE k \in 1..Len(d) : d[k].id = i]

\* data[run["id"]] = run: an existing key keeps its place, a new key goes last
Put(d, run) ==
    IF Has(d, run.id)
    THEN [k \in 1..Len(d) |-> IF d[k].id = run.id THEN run ELSE d[k]]
    ELSE Append(d, run)

\* Variant: the file is opened truncated, so nothing is loaded.
load_fresh(f) == <<>>

\* pickle.load(f) after f.seek(0); EOFError on a file of length 0
load(f) == IF f.kind = "empty" THEN <<>> ELSE f.store

\* Variant: no seek and truncate before the dump: the new pickle lands after
\* the old one, which is the one the next load reads.
dump_appended(d) == IF file.kind = "empty" THEN [kind |-> "pickle", store |-> d] ELSE file

\* f.seek(0); f.truncate(); pickle.dump(data, f)
dump(d) == [kind |-> "pickle", store |-> d]

Min(a, b) == IF a < b THEN a ELSE b

\* The page u of a listing and whether the response links to a next page.
page_runs(listing, u) == SubSeq(listing, (u - 1) * PageSize + 1, Min(u * PageSize, Len(listing)))

has_next(listing, u) == Len(listing) > u * PageSize

\* Variant: a run found stored as completed is not stored again.
RECURSIVE merge_runs_keep_completed(_, _)
merge_runs_keep_completed(st, runs) ==
    IF runs = <<>> THEN st
    ELSE LET run == Head(runs)
             known == Has(st.data, run.id) /\ Get(st.data, run.id).status = "completed"
         IN merge_runs_keep_completed(
                [data |-> IF known THEN st.data ELSE Put(st.data, run),
                 synced |-> st.synced \/ known],
                Tail(runs))

\* Variant: the for loop is left at the run found stored as completed.
RECURSIVE merge_runs_break(_, _)
merge_runs_break(st, runs) ==
    IF runs = <<>> THEN st
    ELSE LET run == Head(runs)
             known == Has(st.data, run.id) /\ Get(st.data, run.id).status = "completed"
         IN IF known
            THEN [data |-> Put(st.data, run), synced |-> TRUE]
            ELSE merge_runs_break([data |-> Put(st.data, run), synced |-> st.synced], Tail(runs))

\* Variant: synced is set by a stored run that is not completed.
RECURSIVE merge_runs_inverted(_, _)
merge_runs_inverted(st, runs) ==
    IF runs = <<>> THEN st
    ELSE LET run == Head(runs) IN
         merge_runs_inverted(
            [data |-> Put(st.data, run),
             synced |-> st.synced \/ (Has(st.data, run.id) /\ Get(st.data, run.id).status # "completed")],
            Tail(runs))

\* The for loop over a page: every run is stored; a run found stored as
\* completed sets synced. (The counter "new" is only printed.)
RECURSIVE merge_runs(_, _)
merge_runs(st, runs) ==
    IF runs = <<>> THEN st
    ELSE LET run == Head(runs) IN
         merge_runs(
            [data |-> Put(st.data, run),
             synced |-> st.synced \/ (Has(st.data, run.id) /\ Get(st.data, run.id).status = "completed")],
            Tail(runs))

\* Variant: every successful match replaces the one found before.
RECURSIVE select_run_last(_, _, _)
select_run_last(runs, wanted, sel) ==
    IF runs = <<>> THEN sel
    ELSE LET run == Head(runs) IN
         IF run.head_commit \notin wanted THEN select_run_last(Tail(runs), wanted, sel)
         ELSE IF run.status # "completed" THEN select_run_last(Tail(runs), wanted, sel)
         ELSE IF run.conclusion # "success" THEN select_run_last(Tail(runs), wanted, sel)
         ELSE select_run_last(Tail(runs), wanted, run)

\* Variant: the conclusion of a completed run is not looked at.
RECURSIVE select_run_any_conclusion(_, _, _)
select_run_any_conclusion(runs, wanted, sel) ==
    IF runs = <<>> THEN sel
    ELSE LET run == Head(runs) IN
         IF run.head_commit \notin wanted THEN select_run_any_conclusion(Tail(runs), wanted, sel)
         ELSE IF run.status # "completed" THEN select_run_any_conclusion(Tail(runs), wanted, sel)
         ELSE select_run_any_conclusion(Tail(runs), wanted, IF sel = NoRun THEN run ELSE sel)

\* The loop over runs.values(): the first matching run that is completed
\* with success is kept.
RECURSIVE select_run(_, _, _)
select_run(runs, wanted, sel) ==
    IF runs = <<>> THEN sel
    ELSE LET run == Head(runs) IN
         IF run.head_commit \notin wanted THEN select_run(Tail(runs), wanted, sel)
         ELSE IF run.status # "completed" THEN select_run(Tail(runs), wanted, sel)
         ELSE IF run.conclusion # "success" THEN select_run(Tail(runs), wanted, sel)
         ELSE select_run(Tail(runs), wanted, IF sel = NoRun THEN run ELSE sel)

\* NoRun stands for the RuntimeError raised when nothing was found.
find_workflow_run(runs, wanted) == select_run(runs, wanted, NoRun)

-----------------------------------------------------------------------------
(* Artifacts *)

NoUrl == 0

ArtifactNames == {"lila-assets", "Lila-Assets"}

\* The artifact listings of a run: the download reference of an artifact is
\* its place in the listing.
ArtifactListings ==
    UNION { { [i \in 1..k |-> [name |-> f[i][1], expired |-> f[i][2], archive_download_url |-> i]]
              : f \in [1..k -> ArtifactNames \X BOOLEAN] }
            : k \in 0..MaxArtifacts }

\* The name with its capitals turned into small letters.
Lower(n) == IF n = "Lila-Assets" THEN "lila-assets" ELSE n

\* Variant: names are compared without regard to case.
RECURSIVE artifact_url_ignore_case(_, _)
artifact_url_ignore_case(listing, wanted) ==
    IF listing = <<>> THEN [url |-> NoUrl, expired |-> FALSE]
    ELSE IF Lower(Head(listing).name) = Lower(wanted)
         THEN [url |-> Head(listing).archive_download_url, expired |-> Head(listing).expired]
         ELSE artifact_url_ignore_case(Tail(listing), wanted)

\* The loop over the artifacts of the run: the first artifact of the wanted
\* name is returned, expired or not; NoUrl stands for the RuntimeError.
RECURSIVE artifact_url(_, _)
artifact_url(listing, wanted) ==
    IF listing = <<>> THEN [url |-> NoUrl, expired |-> FALSE]
    ELSE IF Head(listing).name = wanted
         THEN [url |-> Head(listing).archive_download_url, expired |-> Head(listing).expired]
         ELSE artifact_url(Tail(listing), wanted)

-----------------------------------------------------------------------------
(* Values the variables take while a part of the program is not running *)

NoRes == [status_code |-> 0, runs |-> <<>>, next |-> FALSE]

NoHist ==
    [fetches |-> 0, stop |-> "none", round |-> 0, orig |-> <<>>, prev |-> <<>>, fail |-> 0,
     hashed |-> FALSE, walked |-> FALSE, artifact |-> FALSE, warned |-> FALSE,
     deployed |-> FALSE, token |-> FALSE]

EmptyFile == [kind |-> "empty", store |-> <<>>]

\* No file of that name in the repository's directory.
AbsentFile == [kind |-> "absent", store |-> <<>>]

\* A second process that has not called workflow_runs; overlap tells whether
\* the calls of the two processes have been under way at the same time.
NoPeer ==
    [pc |-> "idle", data |-> <<>>, url |-> ASSET_BUILDS_URL, res |-> NoRes,
     exit |-> "none", hist |-> NoHist, overlap |-> FALSE]

Identities == {hash_files(t, ASSET_FILES) : t \in TreeSet} \ {KeyError}

-----------------------------------------------------------------------------
(* The ancestry walk on its own: find_commits over every small repository *)

InitWalk ==
    /\ \E n \in 1..MaxCommits :
          /\ parents \in Graphs(n)
          /\ tree \in [Commits(n) -> TreeSet]
          /\ commit = n
    /\ wanted_hash \in Identities
    /\ emitted = <<>>
    /\ stack = <<>>
    /\ wanted_commits = {}
    /\ remote = <<>>
    /\ file = EmptyFile
    /\ data = <<>>
    /\ url = ASSET_BUILDS_URL
    /\ res = NoRes
    /\ pc = "walk"
    /\ found = NoRun
    /\ download = NoUrl
    /\ exit = "none"
    /\ hist = NoHist
    /\ name = "lila-assets"
    /\ artifacts = <<>>
    /\ peer = NoPeer

\* wanted_commits = set(find_commits(commit, ASSET_FILES, wanted_hash))
FindCommits ==
    /\ pc = "walk"
    /\ emitted' = find_commits(commit, ASSET_FILES, wanted_hash)
    /\ wanted_commits' = SeqToSet(emitted')
    /\ pc' = "walked"
    /\ hist' = [hist EXCEPT !.walked = TRUE]
    /\ UNCHANGED <<repoVars, name, artifacts, peer, commit, wanted_hash, stack, remote, file, data, url, res, found, download, exit>>

NextWalk == FindCommits

SpecWalk == InitWalk /\ [][NextWalk]_vars

Matches(c) == hash_files(tree[c], ASSET_FILES) = wanted_hash

AllCommits == DOMAIN parents

ParentSet(c) == SeqToSet(parents[c])

\* The parent paths of the repository that start at commit c.
PathsFrom(c) ==
    UNION { { p \in [1..k -> AllCommits] :
                /\ p[1] = c
                /\ \A i \in 1..(k - 1) : p[i + 1] \in ParentSet(p[i]) }
            : k \in 1..Cardinality(AllCommits) }

Ancestors(c) == {p[Len(p)] : p \in PathsFrom(c)}

\* The commits at the end of a parent path from c on which every commit matches.
MatchingChain(c) ==
    {p[Len(p)] : p \in {q \in PathsFrom(c) : \A i \in 1..Len(q) : Matches(q[i])}}

RECURSIVE SumParents(_)
SumParents(s) == IF s = <<>> THEN 0 ELSE Len(parents[Head(s)]) + SumParents(Tail(s))

\* C8: the emitted set is exactly the commits joined to the start by a chain
\* of matching commits; find_commits is entered once for the start and once
\* per parent edge of an emitted commit, never for the parents of a commit
\* that does not match; the start is emitted when the target is its own identity.
C8_EmitsExactlyMatchingChain ==
    pc = "walked" =>
        /\ wanted_commits = MatchingChain(commit)
        /\ Len(visited(commit, ASSET_FILES, wanted_hash)) = 1 + SumParents(emitted)
        /\ \A i \in 2..Len(visited(commit, ASSET_FILES, wanted_hash)) :
              \E d \in wanted_commits : visited(commit, ASSET_FILES, wanted_hash)[i] \in ParentSet(d)
        /\ (Matches(commit) => commit \in wanted_commits)

\* C8 witness: a walk that emitted a commit and stopped at a differing commit
\* that has a parent.
C8_Witness ==
    /\ pc = "walked"
    /\ Cardinality(wanted_commits) >= 2
    /\ \E d \in wanted_commits : \E c \in ParentSet(d) : ~Matches(c) /\ parents[c] # <<>>

\* C9 as stated: every ancestor of head with head's identity is in the matching set.
C9_Original ==
    (pc = "walked" /\ Matches(commit)) =>
        \A c \in Ancestors(commit) : Matches(c) => c \in wanted_commits

\* C9 amended: the matching set holds head and every equivalent parent of a
\* commit of the matching set; an equivalent ancestor is outside it exactly
\* when every parent path from head to it passes a commit that differs.
C9_EquivalentUpToFrontier ==
    (pc = "walked" /\ Matches(commit)) =>
        /\ commit \in wanted_commits
        /\ \A d \in wanted_commits : \A c \in ParentSet(d) : Matches(c) => c \in wanted_commits
        /\ \A c \in Ancestors(commit) :
              (Matches(c) /\ c \notin wanted_commits) =>
                  \A p \in PathsFrom(commit) :
                      p[Len(p)] = c => \E i \in 1..Len(p) : ~Matches(p[i])

\* C9 witness: an equivalent ancestor behind a differing commit, left out.
C9_Witness ==
    /\ pc = "walked"
    /\ Matches(commit)
    /\ \E c \in Ancestors(commit) : Matches(c) /\ c \notin wanted_commits
    /\ Cardinality(wanted_commits) >= 1

-----------------------------------------------------------------------------
(* main, invoked again and again, against a provider whose listing changes *)

\* The repositories of the pipeline specification: a head without a tracked
\* path; a head and its parent with the same identity; a head whose parent
\* has another identity; a head without parents next to an unrelated commit
\* of the same identity.
MainRepos ==
    { [parents |-> <<<<>>>>, tree |-> <<[BaseTree EXCEPT !["yarn.lock"] = Absent]>>],
      [parents |-> <<<<>>, <<1>>>>, tree |-> <<[BaseTree EXCEPT !["README.md"] = 2], BaseTree>>],
      [parents |-> <<<<>>, <<1>>>>, tree |-> <<[BaseTree EXCEPT !["ui"] = 2], BaseTree>>],
      [parents |-> <<<<>>, <<>>>>, tree |-> <<BaseTree, BaseTree>>] }

\* The repository of the cache specification: one commit.
SyncRepos == { [parents |-> <<<<>>>>, tree |-> <<BaseTree>>] }

InitMain(repos) ==
    /\ \E r \in repos :
          /\ parents = r.parents
          /\ tree = r.tree
          /\ commit = Len(r.parents)
    /\ wanted_hash = <<>>
    /\ emitted = <<>>
    /\ stack = <<>>
    /\ wanted_commits = {}
    /\ remote = <<>>
    /\ file = AbsentFile
    /\ data = <<>>
    /\ url = ASSET_BUILDS_URL
    /\ res = NoRes
    /\ pc = "idle"
    /\ found = NoRun
    /\ download = NoUrl
    /\ exit = "none"
    /\ hist = NoHist
    /\ name = "lila-assets"
    /\ artifacts = <<>>
    /\ peer = NoPeer

Init == InitMain(MainRepos)

InitSync == InitMain(SyncRepos)

\* The listing is read by workflow_runs only: what the provider does while
\* main is past workflow_runs is seen by the next invocation, as if done
\* before it.
ListingObservable == pc \in {"idle", "sync"}

\* The provider queues a run for a commit; ids grow with creation.
RemoteNewRun(cap) ==
    /\ ListingObservable
    /\ Len(remote) < cap
    /\ \E c \in AllCommits :
          remote' = <<Run(Len(remote) + 1, <<"queued", "none">>, c)>> \o remote
    /\ UNCHANGED <<repoVars, name, artifacts, peer, walkVars, file, data, url, res, pc, found, download, exit, hist>>

\* A run moves on: queued, then completed with a conclusion (the pending
\* statuses in between are to the program what queued is); a completed run
\* that is re-run keeps its id and is queued again.
Lifecycle(d) ==
    IF d[1] = "completed"
    THEN {<<"queued", "none">>}
    ELSE {<<"completed", "success">>, <<"completed", "failure">>}

RemoteUpdate ==
    /\ ListingObservable
    /\ \E i \in 1..Len(remote) :
          \E d \in Lifecycle(<<remote[i].status, remote[i].conclusion>>) :
              remote' = [remote EXCEPT ![i] = Run(remote[i].id, d, remote[i].head_commit)]
    /\ UNCHANGED <<repoVars, name, artifacts, peer, walkVars, file, data, url, res, pc, found, download, exit, hist>>

\* open(..., "ab+"): a file that is absent is created, of length 0.
open_ab(f) == IF f.kind = "absent" THEN EmptyFile ELSE f

\* workflow_runs up to its loop: the file is opened (created when absent)
\* and loaded; the file is absent, of length 0 or holds a whole pickle.
\* h is what the caller has done so far.
OpenWith(h) ==
    /\ pc = "idle"
    /\ file.kind # "partial"
    /\ pc' = "sync"
    /\ file' = open_ab(file)
    /\ data' = load(file')
    /\ url' = ASSET_BUILDS_URL
    /\ hist' = h
    /\ UNCHANGED <<repoVars, name, artifacts, peer, walkVars, remote, res, found, download, exit>>

Open == OpenWith(hist)

\* Variant: the cache file is opened before the credential is looked up.
Start_opens_first ==
    \E token \in BOOLEAN :
        IF ~token
        THEN /\ pc = "idle"
             /\ exit' = "return 128"
             /\ pc' = "done"
             /\ file' = open_ab(file)
             /\ UNCHANGED <<repoVars, name, artifacts, peer, walkVars, remote, data, url, res, found, download, hist>>
        ELSE OpenWith([hist EXCEPT !.token = TRUE])

\* main up to the first request: the credential, the session, the
\* repository, and the call of workflow_runs.
Start ==
    \E token \in BOOLEAN :
        IF ~token
        THEN /\ pc = "idle"
             /\ exit' = "return 128"
             /\ pc' = "done"
             /\ UNCHANGED <<repoVars, name, artifacts, peer, walkVars, remote, file, data, url, res, found, download, hist>>
        ELSE OpenWith([hist EXCEPT !.token = TRUE])

\* One turn of the loop of workflow_runs: the request, the merge of the page,
\* and, when the loop ends here, the finally block and the return.
FetchOk ==
    /\ pc = "sync"
    /\ LET page == page_runs(remote, url)
           next == has_next(remote, url)
           st == merge_runs([data |-> data, synced |-> FALSE], page)
       IN /\ res' = [status_code |-> 200, runs |-> page, next |-> next]
          /\ data' = st.data
          /\ IF st.synced \/ ~next
             THEN /\ file' = dump(st.data)
                  /\ pc' = "resolve"
                  /\ url' = url
                  /\ hist' = [hist EXCEPT !.fetches = @ + 1,
                                          !.stop = IF st.synced THEN "synced" ELSE "last page"]
             ELSE /\ file' = file
                  /\ pc' = "sync"
                  /\ url' = url + 1
                  /\ hist' = [hist EXCEPT !.fetches = @ + 1]
    /\ UNCHANGED <<repoVars, name, artifacts, peer, walkVars, remote, found, download, exit>>

\* The provider answers with another status: the loop is left, the store is
\* written and returned.
FetchNon200 ==
    /\ pc = "sync"
    /\ res' = [status_code |-> 500, runs |-> <<>>, next |-> FALSE]
    /\ file' = dump(data)
    /\ pc' = "resolve"
    /\ hist' = [hist EXCEPT !.fetches = @ + 1, !.stop = "non200"]
    /\ UNCHANGED <<repoVars, name, artifacts, peer, walkVars, remote, data, url, found, download, exit>>

\* The request, the decoding or a run of the page raises: the runs merged so
\* far stay, the finally block writes the store, the exception ends main.
FetchRaises ==
    /\ pc = "sync"
    /\ LET page == page_runs(remote, url) IN
       \E k \in 0..(IF page = <<>> THEN 0 ELSE Len(page) - 1) :
          LET st == merge_runs([data |-> data, synced |-> FALSE], SubSeq(page, 1, k)) IN
          /\ res' = [status_code |-> 0, runs |-> SubSeq(page, 1, k), next |-> FALSE]
          /\ data' = st.data
          /\ file' = dump(st.data)
          /\ hist' = [hist EXCEPT !.fetches = @ + 1, !.stop = "exception"]
    /\ pc' = "done"
    /\ exit' = "exception in workflow_runs"
    /\ UNCHANGED <<repoVars, name, artifacts, peer, walkVars, remote, url, found, download>>

\* main from the head identity to the selected run.
Resolve ==
    /\ pc = "resolve"
    /\ wanted_hash' = hash_files(tree[commit], ASSET_FILES)
    /\ IF wanted_hash' = KeyError
       THEN /\ exit' = "return 1"
            /\ pc' = "done"
            /\ UNCHANGED <<emitted, wanted_commits, found, hist>>
       ELSE /\ emitted' = find_commits(commit, ASSET_FILES, wanted_hash')
            /\ wanted_commits' = SeqToSet(emitted')
            /\ found' = find_workflow_run(data, wanted_commits')
            /\ hist' = [hist EXCEPT !.hashed = TRUE, !.walked = TRUE]
            /\ IF found' = NoRun
               THEN exit' = "RuntimeError: no run" /\ pc' = "done"
               ELSE exit' = exit /\ pc' = "artifact"
    /\ res' = NoRes
    /\ UNCHANGED <<repoVars, name, artifacts, peer, commit, stack, remote, file, data, url, download>>

\* The artifact listings of the pipeline specification: none; one artifact
\* whose name differs in case; one of the wanted name; one of the wanted
\* name, expired, after one whose name differs in case.
MainListings ==
    { <<>>,
      <<[name |-> "Lila-Assets", expired |-> FALSE, archive_download_url |-> 1]>>,
      <<[name |-> "lila-assets", expired |-> FALSE, archive_download_url |-> 1]>>,
      <<[name |-> "Lila-Assets", expired |-> FALSE, archive_download_url |-> 1],
        [name |-> "lila-assets", expired |-> TRUE, archive_download_url |-> 2]>> }

\* url = artifact_url(session, run, "lila-assets"), the provider answering
\* with one of the listings
ArtifactFrom(listings) ==
    /\ pc = "artifact"
    /\ \E listing \in listings :
          LET a == artifact_url(listing, name) IN
          /\ artifacts' = listing
          /\ download' = a.url
          /\ hist' = [hist EXCEPT !.artifact = TRUE, !.warned = a.expired]
          /\ IF a.url = NoUrl
             THEN exit' = "RuntimeError: no artifact" /\ pc' = "done"
             ELSE exit' = exit /\ pc' = "deploy"
    /\ UNCHANGED <<repoVars, name, peer, walkVars, remote, file, data, url, res, found>>

Artifact == ArtifactFrom(ArtifactListings)

\* subprocess.call(["ssh", ...]): the exit code is the remote session's.
Deploy ==
    /\ pc = "deploy"
    /\ exit' = "deploy"
    /\ pc' = "done"
    /\ hist' = [hist EXCEPT !.deployed = TRUE]
    /\ UNCHANGED <<repoVars, name, artifacts, peer, walkVars, remote, file, data, url, res, found, download>>

\* sys.exit(main()): the process is gone, and with it what it held in memory.
Exit ==
    /\ pc = "done"
    /\ pc' = "idle"
    /\ wanted_hash' = <<>>
    /\ emitted' = <<>>
    /\ wanted_commits' = {}
    /\ data' = <<>>
    /\ url' = ASSET_BUILDS_URL
    /\ res' = NoRes
    /\ found' = NoRun
    /\ download' = NoUrl
    /\ exit' = "none"
    /\ hist' = NoHist
    /\ artifacts' = <<>>
    /\ UNCHANGED <<repoVars, name, peer, commit, stack, remote, file>>

\* workflow_runs has returned the store to a caller that does nothing more.
Return ==
    /\ pc = "resolve"
    /\ pc' = "idle"
    /\ data' = <<>>
    /\ res' = NoRes
    /\ hist' = NoHist
    /\ UNCHANGED <<repoVars, name, artifacts, peer, walkVars, remote, file, url, found, download, exit>>

MaxMainRuns == 2     \* runs the provider ever lists in the pipeline specification

Next ==
    \/ RemoteNewRun(MaxMainRuns)
    \/ RemoteUpdate
    \/ Start
    \/ FetchOk
    \/ FetchNon200
    \/ FetchRaises
    \/ Resolve
    \/ ArtifactFrom(MainListings)
    \/ Deploy
    \/ Exit

Spec == Init /\ [][Next]_vars

\* workflow_runs called again and again, whatever its caller does with the store.
NextSync ==
    \/ RemoteNewRun(MaxRuns)
    \/ RemoteUpdate
    \/ Open
    \/ FetchOk
    \/ FetchNon200
    \/ FetchRaises
    \/ Return
    \/ Exit

SpecSync == InitSync /\ [][NextSync]_vars

-----------------------------------------------------------------------------
(* The selection on its own: find_workflow_run over every small store *)

InitSelect ==
    /\ parents = <<<<>>, <<1>>>>
    /\ tree = <<BaseTree, BaseTree>>
    /\ commit = 2
    /\ wanted_hash = hash_files(BaseTree, ASSET_FILES)
    /\ emitted = <<>>
    /\ stack = <<>>
    /\ wanted_commits \in SUBSET {1, 2}
    /\ remote = <<>>
    /\ file = EmptyFile
    /\ \E ids \in InjSeqs(1..MaxRuns) :
          \E f \in [1..Len(ids) -> Dispositions \X {1, 2}] :
              data = [k \in 1..Len(ids) |-> Run(ids[k], f[k][1], f[k][2])]
    /\ url = ASSET_BUILDS_URL
    /\ res = NoRes
    /\ pc = "select"
    /\ found = NoRun
    /\ download = NoUrl
    /\ exit = "none"
    /\ hist = NoHist
    /\ name = "lila-assets"
    /\ artifacts = <<>>
    /\ peer = NoPeer

\* run = find_workflow_run(runs, wanted_commits)
Select ==
    /\ pc = "select"
    /\ found' = find_workflow_run(data, wanted_commits)
    /\ exit' = IF found' = NoRun THEN "RuntimeError: no run" ELSE "none"
    /\ pc' = "selected"
    /\ UNCHANGED <<repoVars, name, artifacts, peer, walkVars, remote, file, data, url, res, download, hist>>

NextSelect == Select

SpecSelect == InitSelect /\ [][NextSelect]_vars

\* The places of the store whose run is for a wanted commit and succeeded.
Deployable == {k \in 1..Len(data) : data[k].head_commit \in wanted_commits /\ Succeeded(data[k])}

\* C1: the result is the run at the first place of the store that is for a
\* wanted commit, completed, with conclusion success; without such a place
\* the call raises and returns no run.
C1_FirstSuccessfulMatch ==
    pc = "selected" =>
        IF Deployable = {}
        THEN found = NoRun /\ exit = "RuntimeError: no run"
        ELSE /\ exit = "none"
             /\ \E k \in Deployable : found = data[k] /\ \A j \in Deployable : k <= j

\* C1 witness: a run was returned although a pending and a failed run for
\* wanted commits come before it in the store.
C1_Witness ==
    /\ pc = "selected"
    /\ found # NoRun
    /\ \E k \in 1..Len(data) :
          /\ data[k] = found
          /\ \E i, j \in 1..(k - 1) :
                /\ data[i].head_commit \in wanted_commits /\ data[i].status # "completed"
                /\ data[j].head_commit \in wanted_commits /\ data[j].status = "completed"
                /\ data[j].conclusion = "failure"

-----------------------------------------------------------------------------
(* The pipeline: claims checked under Spec *)

HeadMissesPath == \E i \in 1..Len(ASSET_FILES) : tree[commit][ASSET_FILES[i]] = Absent

\* Commit c has every tracked path, with the blobs the head commit has.
InputEquivalent(c) == \A i \in 1..Len(ASSET_FILES) :
    tree[c][ASSET_FILES[i]] # Absent /\ tree[c][ASSET_FILES[i]] = tree[commit][ASSET_FILES[i]]

\* C2 as stated: the selected run has the greatest id among the cached
\* runs that succeeded for a commit input-equivalent to the checkout (here
\* only among those of the matching set, which are all input-equivalent:
\* the statement over every input-equivalent commit asks for more).
C2_Original ==
    found # NoRun =>
        /\ Succeeded(found) /\ InputEquivalent(found.head_commit)
        /\ \A r \in Entries(data) :
              (Succeeded(r) /\ InputEquivalent(r.head_commit) /\ r.head_commit \in wanted_commits)
                  => r.id <= found.id

\* C2 amended: the selected run is the first, in the order in which the
\* runs entered the store, of the cached runs that succeeded for a commit of
\* the matching set; it is a run of the persisted store, and nothing is
\* deployed without it.
C2_FirstCachedMatch ==
    /\ found # NoRun =>
          /\ data = file.store
          /\ \E k \in 1..Len(data) :
                /\ data[k] = found
                /\ Succeeded(found) /\ found.head_commit \in wanted_commits
                /\ \A j \in 1..(k - 1) :
                      ~(Succeeded(data[j]) /\ data[j].head_commit \in wanted_commits)
    /\ pc \in {"artifact", "deploy"} => found # NoRun
    /\ hist.deployed => found # NoRun

\* C2 witness: a deploy of a run older than another cached run that
\* succeeded for a commit of the matching set.
C2_Witness ==
    /\ hist.deployed
    /\ \E r \in Entries(data) :
          Succeeded(r) /\ r.head_commit \in wanted_commits /\ r.id > found.id

-----------------------------------------------------------------------------
(* The cache: claims checked under SpecSync *)

\* The step on which workflow_runs leaves its loop, by return or by exception.
LeavesSync == pc = "sync" /\ pc' # "sync"

\* The step is a turn of the loop: a request was made.
Requests == pc = "sync" /\ hist'.fetches = hist.fetches + 1

\* A run of the page just received was already stored as completed.
MeetsCompleted ==
    \E i \in 1..Len(res'.runs) :
        Has(data, res'.runs[i].id) /\ Get(data, res'.runs[i].id).status = "completed"

\* C4: no step removes a run id from the persisted store, and the mapping
\* workflow_runs returns holds every id the file held before the call.
C4_SyncNeverRemoves ==
    [][ /\ Ids(file.store) \subseteq Ids(file'.store)
        /\ (pc = "sync" => Ids(file.store) \subseteq Ids(data'))
        /\ ((pc = "sync" /\ pc' = "resolve") => Ids(file.store) \subseteq Ids(data')) ]_vars

\* C4 witness: a sync that raised on its first request, over a store that
\* held two runs, has rewritten the file with both.
C4_Witness ==
    /\ pc = "done"
    /\ hist.stop = "exception"
    /\ hist.fetches = 1
    /\ res.runs = <<>>
    /\ Len(file.store) >= 2

\* C5 as stated: an entry stored as completed is in the store, unchanged,
\* after every step.
C5_Original ==
    [][ \A e \in Entries(file.store) :
            e.status = "completed" => e \in Entries(file'.store) ]_vars

\* C5 amended: a page that lists the id of a stored entry overwrites the
\* entry with the listed run, completed or not (and a completed one ends the
\* pagination after that page); the entries whose ids the page does not
\* list are left as they are.
C5_ListedEntriesOverwritten ==
    [][ Requests =>
          /\ \A e \in Entries(data) :
                IF e.id \in Ids(res'.runs)
                THEN \E i \in 1..Len(res'.runs) :
                        res'.runs[i].id = e.id /\ Get(data', e.id) = res'.runs[i]
                ELSE e \in Entries(data')
          /\ (MeetsCompleted => (pc' # "sync" /\ file'.store = data')) ]_vars

\* C5 witness: a sync met a single run stored as completed, listed as queued
\* again, and the store now holds it as queued.
C5_Witness ==
    /\ pc = "resolve"
    /\ hist.stop = "synced"
    /\ Len(res.runs) = 1
    /\ res.runs[1].status = "queued"
    /\ Get(file.store, res.runs[1].id).status = "queued"

\* C7: when workflow_runs leaves its loop, by return or by exception, the
\* file holds exactly the store in memory: every run of the part of the page
\* merged on this turn, and every entry of earlier turns that this turn did
\* not overwrite; after a non-200 response the call returns that store
\* and main goes on.
C7_EveryExitPersists ==
    [][ LeavesSync =>
          /\ file' = [kind |-> "pickle", store |-> data']
          /\ \A i \in 1..Len(res'.runs) : res'.runs[i] \in Entries(file'.store)
          /\ \A e \in Entries(data) : e.id \notin Ids(res'.runs) => e \in Entries(file'.store)
          /\ (res'.status_code \notin {0, 200} =>
                (pc' = "resolve" /\ data' = data /\ exit' = "none")) ]_vars

\* C7 witness: a non-200 answer to the request for the second page; the
\* runs of the first page are in the file.
C7_Witness ==
    /\ pc = "resolve"
    /\ hist.stop = "non200"
    /\ hist.fetches = 2
    /\ Len(file.store) >= PageSize
    /\ file.store = data

\* C10: a 200 page with a run already stored as completed ends the
\* pagination: every run of the page is in the store, the store is written,
\* and workflow_runs returns without another request, next link or not.
C10_StopsAfterKnownCompleted ==
    [][ (Requests /\ res'.status_code = 200 /\ MeetsCompleted) =>
          /\ pc' = "resolve"
          /\ url' = url
          /\ hist'.stop = "synced"
          /\ \A i \in 1..Len(res'.runs) : res'.runs[i] \in Entries(data')
          /\ \A e \in Entries(data) : e.id \notin Ids(res'.runs) => e \in Entries(data')
          /\ Ids(data') = Ids(data) \cup Ids(res'.runs)
          /\ file' = [kind |-> "pickle", store |-> data'] ]_vars

\* C10 witness: an early stop on a full page that linked to a next page.
C10_Witness ==
    /\ pc = "resolve"
    /\ hist.stop = "synced"
    /\ res.next
    /\ Len(res.runs) = PageSize
    /\ Len(file.store) < Len(remote)

-----------------------------------------------------------------------------
(* Two syncs in a row against a listing that stays as it is *)

\* Stored and listed runs here are queued or completed with success.
IdemDispositions == {<<"queued", "none">>, <<"completed", "success">>}

\* The stores of at most n runs with ids in 1..n, in any order.
Stores(n, dispositions, commits) ==
    UNION { { [k \in 1..Len(ids) |-> Run(ids[k], f[k][1], f[k][2])]
              : f \in [1..Len(ids) -> dispositions \X commits] }
            : ids \in InjSeqs(1..n) }

\* The listings of at most n runs, newest (greatest id) first.
Listings(n) ==
    { l \in Stores(n, IdemDispositions, {1}) : \A i, j \in 1..Len(l) : i < j => l[i].id > l[j].id }

NumPages(listing) == IF listing = <<>> THEN 1 ELSE (Len(listing) + PageSize - 1) \div PageSize

\* hist.orig is the store before the first sync, hist.prev the store after
\* it, hist.fail the page the provider answers with a non-200 status (0: none).
InitIdem ==
    /\ parents = <<<<>>>>
    /\ tree = <<BaseTree>>
    /\ commit = 1
    /\ wanted_hash = <<>>
    /\ emitted = <<>>
    /\ stack = <<>>
    /\ wanted_commits = {}
    /\ remote \in Listings(MaxRuns)
    /\ \E s0 \in Stores(MaxRuns, IdemDispositions, {1}) :
          /\ file = dump(s0)
          /\ \E p \in 0..NumPages(remote) : hist = [NoHist EXCEPT !.orig = s0, !.fail = p]
    /\ data = <<>>
    /\ url = ASSET_BUILDS_URL
    /\ res = NoRes
    /\ pc = "idle"
    /\ found = NoRun
    /\ download = NoUrl
    /\ exit = "none"
    /\ name = "lila-assets"
    /\ artifacts = <<>>
    /\ peer = NoPeer

IdemFetchOk == hist.fail # url /\ FetchOk

IdemFetchNon200 == hist.fail = url /\ FetchNon200

\* The first call has returned; the caller calls workflow_runs once more.
SyncAgain ==
    /\ pc = "resolve"
    /\ hist.round = 0
    /\ pc' = "idle"
    /\ data' = <<>>
    /\ res' = NoRes
    /\ hist' = [NoHist EXCEPT !.orig = hist.orig, !.fail = hist.fail,
                              !.prev = file.store, !.round = 1]
    /\ UNCHANGED <<repoVars, name, artifacts, peer, walkVars, remote, file, url, found, download, exit>>

NextIdem ==
    \/ Open
    \/ IdemFetchOk
    \/ IdemFetchNon200
    \/ SyncAgain

SpecIdem == InitIdem /\ [][NextIdem]_vars

SecondSyncDone == pc = "resolve" /\ hist.round = 1

NoneReopened ==
    \A e \in Entries(hist.orig) :
        e.status = "completed" =>
            \A r \in Entries(remote) : r.id = e.id => r.status = "completed"

-----------------------------------------------------------------------------
(* workflow_runs and the end of the process in the middle of the rewrite *)

\* A file that holds the first bytes of a pickle and not the rest.
PartialFile == [kind |-> "partial", store |-> <<>>]

\* Variant: the store is written to another file that then takes the
\* place of the cache file, which is as it was until then.
interrupted_dump_renamed(f, written) == f

\* f.seek(0); f.truncate(); pickle.dump(data, f), ended before the dump is
\* done: the file is of length 0 when nothing of the pickle has reached it,
\* and holds the pickle's first bytes otherwise.
interrupted_dump(f, written) == IF written THEN PartialFile ELSE EmptyFile

\* What pickle.load does with the first bytes of a pickle: EOFError when
\* they end where an opcode would start, UnpicklingError ("pickle data was
\* truncated") when they end inside an opcode's argument or a frame.
LoadErrors == {"EOFError", "UnpicklingError"}

\* workflow_runs up to its loop, on a file that holds a cut-off pickle:
\* EOFError is caught and the store starts empty; any other error leaves
\* workflow_runs before the try/finally, with the file as it is, and ends main.
OpenUnreadable ==
    /\ pc = "idle"
    /\ file.kind = "partial"
    /\ \E err \in LoadErrors :
          IF err = "EOFError"
          THEN /\ pc' = "sync"
               /\ data' = <<>>
               /\ exit' = exit
               /\ hist' = hist
          ELSE /\ pc' = "done"
               /\ data' = data
               /\ exit' = "exception in pickle.load"
               /\ hist' = [hist EXCEPT !.stop = "load error"]
    /\ url' = ASSET_BUILDS_URL
    /\ UNCHANGED <<repoVars, name, artifacts, peer, walkVars, remote, file, res, found, download>>

\* The loop is left (a non-200 answer, an exception after k runs of the
\* page, or the page that ends the pagination) and the process is ended
\* inside the finally block, after f.truncate() and before pickle.dump is
\* done. hist.prev is the store the file held before.
Killed ==
    /\ pc = "sync"
    /\ LET page == page_runs(remote, url)
           next == has_next(remote, url)
       IN \E k \in 0..Len(page) :
             LET st == merge_runs([data |-> data, synced |-> FALSE], SubSeq(page, 1, k)) IN
             /\ (k = Len(page) /\ page # <<>>) => (st.synced \/ ~next)
             /\ res' = [status_code |-> 0, runs |-> SubSeq(page, 1, k), next |-> FALSE]
             /\ data' = st.data
             /\ \E written \in BOOLEAN : file' = interrupted_dump(file, written)
             /\ hist' = [hist EXCEPT !.fetches = @ + 1, !.stop = "killed", !.prev = file.store]
    /\ pc' = "done"
    /\ exit' = "killed"
    /\ UNCHANGED <<repoVars, name, artifacts, peer, walkVars, remote, url, found, download>>

NextCrash ==
    \/ RemoteNewRun(MaxRuns)
    \/ RemoteUpdate
    \/ Open
    \/ OpenUnreadable
    \/ FetchOk
    \/ FetchNon200
    \/ FetchRaises
    \/ Killed
    \/ Return
    \/ Exit

SpecCrash == InitSync /\ [][NextCrash]_vars

\* C11 as stated: a call of workflow_runs on a file that is absent, empty or
\* unreadable goes on to the fetch with an empty store and does not end the
\* process, and the file it leaves on return is a whole pickle.
C11_Original ==
    [][ (pc = "idle" /\ pc' # "idle" /\ file.kind # "pickle") =>
            (pc' = "sync" /\ data' = <<>> /\ exit' = "none") ]_vars

\* C17: when the process is ended between the truncation and the end of the
\* dump, the file holds no store: neither the one it held before the call
\* nor the merged one, but nothing or the first bytes of a pickle; and a
\* call of workflow_runs that finds the file of length 0 starts from an empty
\* store, whatever earlier calls had persisted.
C17_InterruptedRewriteLosesStore ==
    [][ /\ (pc = "sync" /\ exit' = "killed") =>
              /\ file'.kind # "pickle"
              /\ file' # dump(hist'.prev)
              /\ file' # dump(data')
              /\ Ids(file'.store) = {}
        /\ (pc = "idle" /\ pc' = "sync" /\ file.kind = "empty") => data' = <<>> ]_vars

\* C17 witness: the process was ended in the rewrite of a file that held
\* runs, after a page was merged; the file is of length 0.
C17_Witness ==
    /\ exit = "killed"
    /\ hist.prev # <<>>
    /\ Len(data) > Len(hist.prev)
    /\ file = EmptyFile

-----------------------------------------------------------------------------
(* artifact_url on its own: every small listing, either name *)

InitArtifact ==
    /\ parents = <<<<>>>>
    /\ tree = <<BaseTree>>
    /\ commit = 1
    /\ wanted_hash = hash_files(BaseTree, ASSET_FILES)
    /\ emitted = <<1>>
    /\ stack = <<>>
    /\ wanted_commits = {1}
    /\ remote = <<>>
    /\ file = EmptyFile
    /\ data = <<>>
    /\ url = ASSET_BUILDS_URL
    /\ res = NoRes
    /\ pc = "artifact"
    /\ \E i \in 1..MaxRuns : found = Run(i, <<"completed", "success">>, 1)
    /\ download = NoUrl
    /\ exit = "none"
    /\ hist = NoHist
    /\ name \in ArtifactNames
    /\ artifacts = <<>>
    /\ peer = NoPeer

NextArtifact == Artifact

SpecArtifact == InitArtifact /\ [][NextArtifact]_vars

\* The places of the listing whose artifact has exactly the wanted name.
NamedExactly == {i \in 1..Len(artifacts) : artifacts[i].name = name}

\* C12: the call returns the download reference of the first artifact of the
\* listing whose name is exactly the wanted one, expired or not, and warns
\* exactly when that artifact is expired; when no artifact of the listing
\* has exactly that name it raises and returns nothing.
C12_ExactNameOrError ==
    hist.artifact =>
        IF NamedExactly = {}
        THEN download = NoUrl /\ exit = "RuntimeError: no artifact" /\ pc = "done"
        ELSE \E i \in NamedExactly :
                /\ \A j \in NamedExactly : i <= j
                /\ download = artifacts[i].archive_download_url
                /\ hist.warned = artifacts[i].expired
                /\ exit = "none"
                /\ pc = "deploy"

\* C12 witness: the wanted name comes second in the listing, expired, after
\* an artifact whose name differs in case only; its reference is returned.
C12_Witness ==
    /\ hist.artifact
    /\ Len(artifacts) = 2
    /\ artifacts[1].name # name /\ Lower(artifacts[1].name) = Lower(name)
    /\ artifacts[2].name = name /\ artifacts[2].expired
    /\ download = artifacts[2].archive_download_url
    /\ hist.warned

-----------------------------------------------------------------------------
(* The credential: claims checked under Spec *)

\* C13: an invocation without the credential ends at once with code 128:
\* that step makes no request, leaves the cache file as it is (absent when it
\* was absent), computes nothing and runs no deploy command, and nothing
\* follows it but the end of the process; code 128 is returned in no other case.
C13_MissingCredentialExits128 ==
    [][ /\ (pc = "idle" /\ pc' # "idle" /\ ~hist'.token) =>
              /\ exit' = "return 128" /\ pc' = "done"
              /\ file' = file /\ data' = data /\ res' = res
              /\ hist'.fetches = 0
              /\ ~hist'.hashed /\ ~hist'.walked /\ ~hist'.artifact /\ ~hist'.deployed
              /\ found' = NoRun /\ download' = NoUrl
        /\ exit' = "return 128" => (pc = "idle" /\ ~hist'.token /\ hist' = NoHist)
        /\ exit = "return 128" => (pc' = "idle" /\ file' = file) ]_vars

\* C13 witness: code 128 while the provider lists a run and the cache file
\* does not exist.
C13_Witness ==
    /\ exit = "return 128"
    /\ file = AbsentFile
    /\ remote # <<>>

-----------------------------------------------------------------------------
(* The early stop and the older history: claims checked under SpecSync *)

\* The ids of the runs of the page just received that were stored as completed.
Triggers ==
    {res'.runs[i].id : i \in {j \in 1..Len(res'.runs) :
        Has(data, res'.runs[j].id) /\ Get(data, res'.runs[j].id).status = "completed"}}

\* C14 as stated: when a sync ends by the early stop, every listed run older
\* than the run that set it off is in the store.
C14_Original ==
    [][ (Requests /\ hist'.stop = "synced") =>
            \A t \in Triggers : \A r \in Entries(remote) :
                r.id < t => Has(file'.store, r.id) ]_vars

\* C15 as stated: after a sync whose responses were all 200, every entry
\* that the store held with a status other than completed, and whose run the
\* provider lists as completed, is stored as completed. (Stated of the syncs
\* that made one request: the provider's listing is then read at one moment,
\* so that the run had become completed before the sync read anything.)
C15_Original ==
    [][ (Requests /\ hist'.fetches = 1 /\ hist'.stop \in {"synced", "last page"}) =>
            \A e \in Entries(file.store) :
                (e.status # "completed" /\ Has(remote, e.id)
                    /\ Get(remote, e.id).status = "completed") =>
                        Get(file'.store, e.id).status = "completed" ]_vars

-----------------------------------------------------------------------------
(* Two processes, each calling workflow_runs once, on the same cache file *)

\* The process whose locals are in pc, data, url, res, exit and hist is the
\* one that takes the next step; peer holds the locals of the other. The
\* file and the provider's listing are shared. A step is the load, one turn
\* of the loop, or the last turn with the rewrite of the file; the file is
\* not locked, so the steps of the two processes come in any order.
InitConc ==
    /\ parents = <<<<>>>>
    /\ tree = <<BaseTree>>
    /\ commit = 1
    /\ wanted_hash = <<>>
    /\ emitted = <<>>
    /\ stack = <<>>
    /\ wanted_commits = {}
    /\ remote \in Listings(MaxRuns)
    /\ file = AbsentFile
    /\ data = <<>>
    /\ url = ASSET_BUILDS_URL
    /\ res = NoRes
    /\ pc = "idle"
    /\ found = NoRun
    /\ download = NoUrl
    /\ exit = "none"
    /\ hist = NoHist
    /\ name = "lila-assets"
    /\ artifacts = <<>>
    /\ peer = NoPeer

\* The other process is the one to take the next step. The calls overlap
\* when both have begun and one of them has not yet left workflow_runs.
Switch ==
    /\ peer' = [pc |-> pc, data |-> data, url |-> url, res |-> res, exit |-> exit, hist |-> hist,
                overlap |-> \/ peer.overlap
                            \/ (peer.pc = "sync" /\ pc # "idle")
                            \/ (pc = "sync" /\ peer.pc # "idle")]
    /\ pc' = peer.pc
    /\ data' = peer.data
    /\ url' = peer.url
    /\ res' = peer.res
    /\ exit' = peer.exit
    /\ hist' = peer.hist
    /\ UNCHANGED <<repoVars, walkVars, remote, file, found, download, name, artifacts>>

NextConc ==
    \/ Open
    \/ FetchOk
    \/ FetchNon200
    \/ FetchRaises
    \/ Switch

SpecConc == InitConc /\ [][NextConc]_vars

\* Both calls of workflow_runs are over, by return or by exception.
BothDone == pc \in {"resolve", "done"} /\ peer.pc \in {"resolve", "done"}

\* The ids of the runs that a call has written to the file.
Persisted == Ids(data) \cup Ids(peer.data)

\* C16: when the two calls did not overlap, every run that either of them
\* wrote to the file is in the file at the end (the witness is an overlap
\* after which a run one of them wrote is not).
C16_SerializedKeepsEntries ==
    (BothDone /\ ~peer.overlap) => Persisted \subseteq Ids(file.store)

\* C16 witness: the calls overlapped, both are over, and a run that one of
\* them wrote to the file is not in the file.
C16_Witness ==
    /\ BothDone
    /\ peer.overlap
    /\ \E i \in Persisted : i \notin Ids(file.store)

-----------------------------------------------------------------------------
(* find_commits call by call: the generator's recursion as a stack *)

\* The trees of this specification: the base tree and one with another blob
\* at a tracked path.
StepTrees == {BaseTree, [BaseTree EXCEPT !["ui"] = 2]}

\* Every repository of at most MaxCommits commits, merges included; the walk
\* starts at the newest commit, for the identity of the base tree.
InitSteps ==
    /\ \E n \in 1..MaxCommits :
          /\ parents \in Graphs(n)
          /\ tree \in [Commits(n) -> StepTrees]
          /\ commit = n
          /\ stack = <<n>>
    /\ wanted_hash = hash_files(BaseTree, ASSET_FILES)
    /\ emitted = <<>>
    /\ wanted_commits = {}
    /\ remote = <<>>
    /\ file = EmptyFile
    /\ data = <<>>
    /\ url = ASSET_BUILDS_URL
    /\ res = NoRes
    /\ pc = "walk"
    /\ found = NoRun
    /\ download = NoUrl
    /\ exit = "none"
    /\ hist = NoHist
    /\ name = "lila-assets"
    /\ artifacts = <<>>
    /\ peer = NoPeer

\* Variant: the recursion is entered for the first parent only.
recurse_into_first_parent(c) == SubSeq(parents[c], 1, Min(1, Len(parents[c])))

\* for parent in commit.parents: yield from find_commits(parent, ...)
recurse_into(c) == parents[c]

\* One call of find_commits: the commit of another identity, or without a
\* tracked path, ends the call; the matching commit is yielded, and the
\* calls for its parents come next, before what was pending.
Enter ==
    /\ pc = "walk"
    /\ stack # <<>>
    /\ LET c == Head(stack) IN
       IF hash_files(tree[c], ASSET_FILES) = KeyError \/ hash_files(tree[c], ASSET_FILES) # wanted_hash
       THEN /\ emitted' = emitted
            /\ stack' = Tail(stack)
       ELSE /\ emitted' = Append(emitted, c)
            /\ stack' = recurse_into(c) \o Tail(stack)
    /\ UNCHANGED <<repoVars, name, artifacts, peer, commit, wanted_hash, wanted_commits,
                   remote, file, data, url, res, pc, found, download, exit, hist>>

\* The generator is exhausted: set(...) has taken every commit it yielded.
Exhausted ==
    /\ pc = "walk"
    /\ stack = <<>>
    /\ wanted_commits' = SeqToSet(emitted)
    /\ pc' = "walked"
    /\ hist' = [hist EXCEPT !.walked = TRUE]
    /\ UNCHANGED <<repoVars, name, artifacts, peer, commit, wanted_hash, emitted, stack,
                   remote, file, data, url, res, found, download, exit>>

NextSteps == Enter \/ Exhausted

\* The process runs on until the generator is exhausted.
SpecSteps == InitSteps /\ [][NextSteps]_vars /\ WF_vars(NextSteps)

\* How often commit c is in the sequence s.
Occurrences(s, c) == Cardinality({i \in 1..Len(s) : s[i] = c})

\* The parent paths from the start to c on which every commit matches.
MatchingPathsTo(c) ==
    {p \in PathsFrom(commit) : p[Len(p)] = c /\ \A i \in 1..Len(p) : Matches(p[i])}

\* C18: on every repository the walk comes to its end; it has then yielded
\* what the recursive definition yields, each commit once per parent path of
\* matching commits that leads to it from the start (so more than once for
\* a commit behind a merge), in no more calls than the start has parent
\* paths; the matching set holds each yielded commit, once.
C18_WalkEndsAndSetDeduplicates ==
    /\ <>(pc = "walked")
    /\ [](pc = "walked" =>
            /\ stack = <<>>
            /\ emitted = find_commits(commit, ASSET_FILES, wanted_hash)
            /\ \A c \in AllCommits : Occurrences(emitted, c) = Cardinality(MatchingPathsTo(c))
            /\ Len(visited(commit, ASSET_FILES, wanted_hash)) <= Cardinality(PathsFrom(commit))
            /\ wanted_commits = {c \in AllCommits : Occurrences(emitted, c) >= 1}
            /\ Cardinality(wanted_commits) <= Len(emitted))

\* C18 witness: a finished walk that yielded a commit twice, behind a merge
\* commit; the matching set is smaller than the number of yields.
C18_Witness ==
    /\ pc = "walked"
    /\ \E c \in AllCommits : Occurrences(emitted, c) = 2
    /\ \E m \in wanted_commits : Len(parents[m]) = 2
    /\ Cardinality(wanted_commits) < Len(emitted)

-----------------------------------------------------------------------------
(* The deploy: claims checked under Spec *)

\* What main has established when it comes to the deploy command.
Resolved ==
    /\ hist.token
    /\ ~HeadMissesPath
    /\ hist.hashed /\ hist.walked /\ hist.artifact
    /\ \A i \in 1..Len(ASSET_FILES) : wanted_hash[i] = tree[commit][ASSET_FILES[i]]
    /\ found \in Entries(data)
    /\ found.status = "completed" /\ found.conclusion = "success"
    /\ InputEquivalent(found.head_commit)
    /\ download # NoUrl
    /\ \E i \in 1..Len(artifacts) :
          artifacts[i].name = name /\ artifacts[i].archive_download_url = download

\* An error of the resolution: a tracked path missing at head, no successful
\* matching run, no artifact of the wanted name.
ResolutionErrors == {"return 1", "RuntimeError: no run", "RuntimeError: no artifact"}

\* C19: the deploy command is reached and run only with the credential, the
\* head identity, a cached run that is completed with success for a commit
\* of head's identity, and an artifact of the wanted name of that run; an
\* invocation that ends with a resolution error has ended without deploying.
C19_DeployOnlyAfterResolution ==
    /\ (pc = "deploy" \/ hist.deployed) => Resolved
    /\ hist.deployed => (exit = "deploy" /\ pc = "done")
    /\ exit \in ResolutionErrors => (pc = "done" /\ ~hist.deployed)
    /\ exit = "return 1" => HeadMissesPath
    /\ exit = "RuntimeError: no run" =>
          ~\E r \in Entries(data) : Succeeded(r) /\ r.head_commit \in wanted_commits
    /\ exit = "RuntimeError: no artifact" =>
          ~\E i \in 1..Len(artifacts) : artifacts[i].name = name

\* C19 witness: a deploy although the store also holds a run for a commit of
\* the matching set that did not succeed, and the run's listing also holds an
\* artifact of another name.
C19_Witness ==
    /\ hist.deployed
    /\ \E r \in Entries(data) : ~Succeeded(r) /\ r.head_commit \in wanted_commits
    /\ \E i \in 1..Len(artifacts) : artifacts[i].name # name

====
